---- MODULE Spec2Model ----
(***************************************************************************)
(* Panel layout manager of the IDE front end.                              *)
(*                                                                         *)
(* The repository holds the manager in three revisions, which are          *)
(* modelled side by side and selected by the variable `variant`:           *)
(*   "lm"  src/js/layout-manager.js   (mousedown handlers inline, resize   *)
(*         from getBoundingClientRect, out-of-range candidates dropped)    *)
(*   "p2"  src/unnamed/part_002       (startResize anchors, resize applied *)
(*         in a requestAnimationFrame callback, candidates clamped)        *)
(*   "p3"  src/unnamed/part_003       (init without the `initialized`      *)
(*         guard, applyLayout always saves, resize as in layout-manager.js)*)
(* state, layouts, init, applyLayout, togglePanel, save/load are the same  *)
(* text in the first two files.  part_003 calls the editor's panel         *)
(* `editor`; it is kept under the name editorArea here, and calls that     *)
(* name that panel are not made to part_003.                               *)
(***************************************************************************)
EXTENDS Integers, Sequences, FiniteSets, TLC

VARIABLES variant, currentLayout, panels, isResizing, resizingPanel,
          startX, startY, startWidth, startHeight, initialized,
          storage, dom, rafQueue, handlers, effects, call, steps,
          session, writer, repeated

vars == <<variant, currentLayout, panels, isResizing, resizingPanel,
          startX, startY, startWidth, startHeight, initialized,
          storage, dom, rafQueue, handlers, effects, call, steps,
          session, writer, repeated>>

(***************************************************************************)
(* JavaScript values.  Every value is a record of one shape so that any    *)
(* two of them can be compared: numbers, booleans, undefined (also an      *)
(* absent property), NaN and null.                                         *)
(***************************************************************************)
Num(n) == [k |-> "num", n |-> n]
Bool(b) == [k |-> "bool", n |-> IF b THEN 1 ELSE 0]
Undef == [k |-> "undef", n |-> 0]
NaN == [k |-> "nan", n |-> 0]
Null == [k |-> "null", n |-> 0]

IsNum(v) == v.k = "num"

\* ToBoolean: undefined, null, NaN, false and 0 are falsy.
Truthy(v) == (v.k = "bool" /\ v.n = 1) \/ (v.k = "num" /\ v.n # 0)

\* ToNumber: undefined -> NaN, null -> 0, false/true -> 0/1.
ToNumber(v) == IF v.k \in {"num", "bool", "null"} THEN Num(v.n) ELSE NaN

\* Math.min / Math.max: NaN when either argument converts to NaN.
MathMin(a, b) ==
  LET x == ToNumber(a)
      y == ToNumber(b)
  IN IF x = NaN \/ y = NaN THEN NaN ELSE IF x.n <= y.n THEN x ELSE y

MathMax(a, b) ==
  LET x == ToNumber(a)
      y == ToNumber(b)
  IN IF x = NaN \/ y = NaN THEN NaN ELSE IF x.n >= y.n THEN x ELSE y

\* a >= b and a <= b: false when either side converts to NaN.
JsGe(a, b) ==
  LET x == ToNumber(a)
      y == ToNumber(b)
  IN x # NaN /\ y # NaN /\ x.n >= y.n

JsLe(a, b) ==
  LET x == ToNumber(a)
      y == ToNumber(b)
  IN x # NaN /\ y # NaN /\ x.n <= y.n

\* a !== b: NaN differs from everything, itself included.
StrictNe(a, b) == a = NaN \/ b = NaN \/ a # b

(***************************************************************************)
(* Panels and presets.                                                     *)
(***************************************************************************)
PanelIds == {"sidebar", "editorArea", "terminal", "aiPanel"}
SizedPanels == {"sidebar", "terminal", "aiPanel"}

Fields == {"visible", "width", "minWidth", "maxWidth",
           "height", "minHeight", "maxHeight", "flex"}

\* An object literal: the listed properties, every other property absent.
EmptyObj == [f \in Fields |-> Undef]

\* The value null where a panel's object is expected (JSON.parse of
\* "sidebar": null).  Reading a property of it throws TypeError; spreading it
\* contributes no property.
NullPanel == [f \in Fields |-> Null]

\* { ...a, ...b }: own properties of b override those of a.
Spread(a, b) ==
  [f \in Fields |-> IF b[f] # Undef THEN b[f]
                    ELSE IF a = NullPanel THEN Undef ELSE a[f]]

\* The property that holds the size of a panel, and its bounds.
SizeField(p) == IF p = "terminal" THEN "height" ELSE "width"
MinField(p) == IF p = "terminal" THEN "minHeight" ELSE "minWidth"
MaxField(p) == IF p = "terminal" THEN "maxHeight" ELSE "maxWidth"

SidebarWidth == 250
SidebarMinWidth == 200
SidebarMaxWidth == 500
TerminalHeight == 250
TerminalMinHeight == 150
TerminalMaxHeight == 500
AiPanelWidth == 380
AiPanelMinWidth == 300
AiPanelMaxWidth == 600

\* state.panels as constructed.
DefaultPanels ==
  [p \in PanelIds |->
     CASE p = "sidebar" ->
            [EmptyObj EXCEPT !.visible = Bool(TRUE), !.width = Num(SidebarWidth),
               !.minWidth = Num(SidebarMinWidth), !.maxWidth = Num(SidebarMaxWidth)]
       [] p = "editorArea" ->
            [EmptyObj EXCEPT !.visible = Bool(TRUE), !.flex = Num(1)]
       [] p = "terminal" ->
            [EmptyObj EXCEPT !.visible = Bool(TRUE), !.height = Num(TerminalHeight),
               !.minHeight = Num(TerminalMinHeight), !.maxHeight = Num(TerminalMaxHeight)]
       [] OTHER ->
            [EmptyObj EXCEPT !.visible = Bool(TRUE), !.width = Num(AiPanelWidth),
               !.minWidth = Num(AiPanelMinWidth), !.maxWidth = Num(AiPanelMaxWidth)]]

PresetNames == {"default", "focus", "coding", "debugging", "aiAssist", "minimal"}

\* A preset entry { visible: v } or { visible: v, <size>: s } (s = 0: no size).
Cfg(p, v, s) ==
  IF s = 0 THEN [EmptyObj EXCEPT !.visible = Bool(v)]
  ELSE [EmptyObj EXCEPT !.visible = Bool(v), ![SizeField(p)] = Num(s)]

\* One row of the preset table: visibility and size of sidebar, terminal, aiPanel.
Row(sv, ss, tv, ts, av, as) ==
  [p \in PanelIds |->
     CASE p = "sidebar" -> Cfg(p, sv, ss)
       [] p = "editorArea" -> Cfg(p, TRUE, 0)
       [] p = "terminal" -> Cfg(p, tv, ts)
       [] OTHER -> Cfg(p, av, as)]

\* The preset table: layouts[name].panels.
layouts ==
  [n \in PresetNames |->
     CASE n = "default" -> Row(TRUE, 250, TRUE, 250, TRUE, 380)
       [] n = "focus" -> Row(FALSE, 0, FALSE, 0, FALSE, 0)
       [] n = "coding" -> Row(TRUE, 250, TRUE, 250, FALSE, 0)
       [] n = "debugging" -> Row(TRUE, 250, TRUE, 350, TRUE, 380)
       [] n = "aiAssist" -> Row(TRUE, 250, FALSE, 0, TRUE, 450)
       [] OTHER -> Row(FALSE, 0, TRUE, 200, FALSE, 0)]

\* `layouts` is a plain object literal, so layouts[name] also finds the
\* properties inherited from Object.prototype: a truthy value that has no
\* `panels` property.
ObjectPrototypeKeys == {"constructor"}

\* What `layouts[layoutName]` evaluates to.
LayoutLookup(layoutName) ==
  IF layoutName \in PresetNames THEN "preset"
  ELSE IF layoutName \in ObjectPrototypeKeys THEN "inherited"
  ELSE "undefined"

(***************************************************************************)
(* The persisted item 'autopilot-layout' of localStorage.                  *)
(*   present: an item is stored; parses: JSON.parse accepts its text;      *)
(*   currentLayout: the parsed record's currentLayout ("" when it has      *)
(*   none); keys: the panel names the parsed record's panels object has;   *)
(*   panels: those panels' objects.                                        *)
(***************************************************************************)
NoPanels == [p \in PanelIds |-> EmptyObj]

NoItem == [present |-> FALSE, parses |-> FALSE, currentLayout |-> "",
           keys |-> {}, panels |-> NoPanels]

\* JSON.stringify of one value, read back by JSON.parse: an undefined
\* property is omitted, NaN is written as null.
JsonValue(v) == IF v = NaN THEN Null ELSE v

JsonPanel(o) == [f \in Fields |-> JsonValue(o[f])]

\* JSON.stringify(layoutData) stored under the key.
Stringify(layoutName, ps) ==
  [present |-> TRUE, parses |-> TRUE, currentLayout |-> layoutName,
   keys |-> PanelIds, panels |-> [p \in PanelIds |-> JsonPanel(ps[p])]]

(***************************************************************************)
(* The page: for each panel element whether it is displayed and the size   *)
(* its style holds.  The stylesheet's sizes are taken to be the sizes the  *)
(* manager is constructed with.                                            *)
(***************************************************************************)
DomInit ==
  [p \in PanelIds |->
     [display |-> TRUE,
      size |-> IF p \in SizedPanels THEN DefaultPanels[p][SizeField(p)].n ELSE 0]]

(***************************************************************************)
(* The manager as one record, so that a function of the source that calls  *)
(* another is the composition of the two operators.                        *)
(***************************************************************************)
NoCall == [op |-> "none", arg |-> "", ret |-> Undef, threw |-> FALSE]

Machine ==
  [currentLayout |-> currentLayout, panels |-> panels,
   isResizing |-> isResizing, resizingPanel |-> resizingPanel,
   startX |-> startX, startY |-> startY,
   startWidth |-> startWidth, startHeight |-> startHeight,
   initialized |-> initialized, storage |-> storage, dom |-> dom,
   rafQueue |-> rafQueue, handlers |-> handlers, effects |-> <<>>,
   ret |-> Undef, threw |-> FALSE,
   setItemThrows |-> FALSE, listenerThrows |-> FALSE]

\* What the surroundings do during one call: whether localStorage.setItem
\* throws (quota exceeded, storage disabled) and whether the subscriber that
\* registered first throws.
Envs == [setItemThrows : BOOLEAN, listenerThrows : BOOLEAN]

\* The manager at the start of a call made in surroundings env.
In(env) ==
  [Machine EXCEPT !.setItemThrows = env.setItemThrows,
                  !.listenerThrows = env.listenerThrows]

\* An effect visible outside the manager: a write to the store or an event.
Effect(type, name, value) == [type |-> type, name |-> name, value |-> value]

\* The number of calls of localStorage.setItem among the effects of one call
\* (the value of the effect tells whether the item was written).
Saves(es) == Cardinality({i \in 1..Len(es) : es[i].type = "save"})

\* One of the calls of localStorage.setItem wrote the item.
Wrote(es) == \E i \in 1..Len(es) : es[i].type = "save" /\ es[i].value = Bool(TRUE)

\* Most calls and events of one behaviour, sessions taken together.
MaxSteps == 4

\* The next state is the record r; the call that produced it is recorded.
Becomes(r, op, arg) ==
  /\ steps < MaxSteps
  /\ \E m \in {r} :
    /\ currentLayout' = m.currentLayout
    /\ panels' = m.panels
    /\ isResizing' = m.isResizing
    /\ resizingPanel' = m.resizingPanel
    /\ startX' = m.startX
    /\ startY' = m.startY
    /\ startWidth' = m.startWidth
    /\ startHeight' = m.startHeight
    /\ initialized' = m.initialized
    /\ storage' = m.storage
    /\ dom' = m.dom
    /\ rafQueue' = m.rafQueue
    /\ handlers' = m.handlers
    /\ effects' = m.effects
    /\ call' = [op |-> op, arg |-> arg, ret |-> m.ret, threw |-> m.threw]
    /\ steps' = steps + 1
    /\ writer' = IF Wrote(m.effects) THEN op ELSE writer
    /\ repeated' = (op = "applyLayout" /\ call.op = "applyLayout"
                      /\ call.arg = arg /\ call.ret = Bool(TRUE))
    /\ UNCHANGED variant

\* A saveLayoutToStorage without its try/catch: the exception of setItem
\* reaches the caller.
saveLayoutToStorage_NoCatch(m) ==
  IF m.setItemThrows
  THEN [m EXCEPT !.effects = Append(@, Effect("save", m.currentLayout, Bool(FALSE))),
                 !.threw = TRUE]
  ELSE [m EXCEPT !.storage = Stringify(m.currentLayout, m.panels),
                 !.effects = Append(@, Effect("save", m.currentLayout, Bool(TRUE)))]

\* saveLayoutToStorage: an exception of setItem is caught and logged.
saveLayoutToStorage(m) ==
  IF m.setItemThrows
  THEN [m EXCEPT !.effects = Append(@, Effect("save", m.currentLayout, Bool(FALSE)))]
  ELSE [m EXCEPT !.storage = Stringify(m.currentLayout, m.panels),
                 !.effects = Append(@, Effect("save", m.currentLayout, Bool(TRUE)))]

\* loadLayoutFromStorage
loadLayoutFromStorage(m) ==
  IF ~m.storage.present THEN m
  ELSE IF ~m.storage.parses THEN m
  ELSE [m EXCEPT
          !.currentLayout = IF m.storage.currentLayout # ""
                            THEN m.storage.currentLayout ELSE "default",
          !.panels = [p \in PanelIds |->
                        IF p \in m.storage.keys THEN m.storage.panels[p]
                        ELSE m.panels[p]]]

\* The panels in the order updatePanelVisibility reads them.
PanelOrder == <<"sidebar", "editorArea", "terminal", "aiPanel">>

\* updatePanelVisibility: the elements are styled one panel after the other;
\* reading `visible` of a panel that is null throws, and the panels after it
\* keep their style.
updatePanelVisibility(m) ==
  LET bad == {i \in 1..4 : m.panels[PanelOrder[i]] = NullPanel}
      stop == IF bad = {} THEN 5 ELSE CHOOSE i \in bad : \A j \in bad : i <= j
      done == {PanelOrder[i] : i \in 1..(stop - 1)}
  IN [m EXCEPT !.dom = [p \in PanelIds |->
                          IF p \in done
                          THEN [m.dom[p] EXCEPT !.display = Truthy(m.panels[p].visible)]
                          ELSE m.dom[p]],
               !.threw = (bad # {})]

\* element.style.<size> = value + 'px': a text that is not a length is dropped.
StyleSize(old, v) == IF IsNum(v) /\ v.n >= 0 THEN v.n ELSE old

\* updatePanelSizes
updatePanelSizes(m) ==
  [m EXCEPT !.dom = [p \in PanelIds |->
                       IF p \in SizedPanels /\ Truthy(m.panels[p].visible)
                       THEN [m.dom[p] EXCEPT
                               !.size = StyleSize(@, m.panels[p][SizeField(p)])]
                       ELSE m.dom[p]]]

\* An overlay that flips a panel the preset hides instead of hiding it.
OverlayPreset_Flipping(ps, layoutName) ==
  [p \in PanelIds |->
     IF layouts[layoutName][p].visible = Bool(FALSE)
     THEN [Spread(ps[p], layouts[layoutName][p])
             EXCEPT !.visible = Bool(~Truthy(ps[p].visible))]
     ELSE Spread(ps[p], layouts[layoutName][p])]

\* An overlay that replaces each panel by the preset's entry.
OverlayPreset_Replacing(ps, layoutName) ==
  [p \in PanelIds |-> layouts[layoutName][p]]

\* The spread of applyLayout with its operands exchanged: the state's
\* properties override the preset's.
OverlayPreset_StateWins(ps, layoutName) ==
  [p \in PanelIds |-> Spread(layouts[layoutName][p], ps[p])]

\* The forEach of applyLayout: each panel of the preset spread over the state's.
OverlayPreset(ps, layoutName) ==
  [p \in PanelIds |-> Spread(ps[p], layouts[layoutName][p])]

\* The subscribers of the window's events, in the order they registered: the
\* listener of layout-fixes.js and one of another script.
Subscribers == <<"first", "second">>

\* A dispatchEvent that lets the exception of a listener through: the
\* listeners after it are not invoked and the caller is interrupted.
dispatchEvent_Propagating(m, type, name, value, seen) ==
  LET e == Append(m.effects, Effect(type, name, value))
  IN IF m.listenerThrows
     THEN [m EXCEPT !.effects = Append(e, Effect("listenerThrew", Subscribers[1], Undef)),
                    !.threw = TRUE]
     ELSE [m EXCEPT !.effects =
             e \o [i \in 1..Len(Subscribers) |-> Effect("listener", Subscribers[i], seen)]]

\* window.dispatchEvent(new CustomEvent(type, { detail })): the listeners run
\* inside the call, in registration order; the exception of a listener is
\* reported and the listeners after it still run.  Each listener is recorded
\* with what it finds in the manager (`seen`) when it runs.
dispatchEvent(m, type, name, value, seen) ==
  [m EXCEPT !.effects =
     Append(@, Effect(type, name, value))
       \o [i \in 1..Len(Subscribers) |->
             IF i = 1 /\ m.listenerThrows
             THEN Effect("listenerThrew", Subscribers[i], Undef)
             ELSE Effect("listener", Subscribers[i], seen)]]

\* applyLayout(layoutName, shouldSave); a statement that throws ends the call.
applyLayout(m, layoutName, shouldSave) ==
  CASE LayoutLookup(layoutName) = "undefined" ->
         [m EXCEPT !.ret = Bool(FALSE)]
    [] LayoutLookup(layoutName) = "inherited" ->
         \* Object.keys(layout.panels) throws after currentLayout was set
         [m EXCEPT !.currentLayout = layoutName, !.threw = TRUE]
    [] OTHER ->
         LET m1 == [m EXCEPT !.currentLayout = layoutName,
                             !.panels = OverlayPreset(m.panels, layoutName)]
             m2 == updatePanelSizes(updatePanelVisibility(m1))
             m3 == IF shouldSave THEN saveLayoutToStorage(m2) ELSE m2
             m4 == dispatchEvent(m3, "layoutChanged", layoutName, Undef,
                                 Bool(m3.currentLayout = layoutName))
         IN IF m3.threw THEN m3
            ELSE IF m4.threw THEN m4
            ELSE [m4 EXCEPT !.ret = Bool(TRUE)]

\* A togglePanel that notifies before it saves.
togglePanel_NotifyFirst(m, panelName) ==
  IF panelName \notin PanelIds \/ m.panels[panelName] = NullPanel
  THEN [m EXCEPT !.ret = Bool(FALSE)]
  ELSE
    LET v == Bool(~Truthy(m.panels[panelName].visible))
        m1 == [m EXCEPT !.panels[panelName].visible = v]
        m2 == updatePanelVisibility(m1)
        m3 == dispatchEvent(m2, "panelToggled", panelName, v,
                            m2.panels[panelName].visible)
        m4 == saveLayoutToStorage(m3)
    IN IF m2.threw THEN m2
       ELSE IF m3.threw THEN m3
       ELSE IF m4.threw THEN m4
       ELSE [m4 EXCEPT !.ret = m4.panels[panelName].visible]

\* togglePanel(panelName); a statement that throws ends the call.
togglePanel(m, panelName) ==
  IF panelName \notin PanelIds \/ m.panels[panelName] = NullPanel
  THEN [m EXCEPT !.ret = Bool(FALSE)]
  ELSE
    LET v == Bool(~Truthy(m.panels[panelName].visible))
        m1 == [m EXCEPT !.panels[panelName].visible = v]
        m2 == updatePanelVisibility(m1)
        m3 == saveLayoutToStorage(m2)
        m4 == dispatchEvent(m3, "panelToggled", panelName, v,
                            m3.panels[panelName].visible)
    IN IF m2.threw THEN m2
       ELSE IF m3.threw THEN m3
       ELSE IF m4.threw THEN m4
       ELSE [m4 EXCEPT !.ret = m4.panels[panelName].visible]

\* setupResizeHandlers: every call adds mousedown listeners (new functions,
\* so listeners added by an earlier call stay beside them).
setupResizeHandlers(m) == [m EXCEPT !.handlers = @ + 1]

\* init
init(m) ==
  IF m.initialized THEN m
  ELSE
    LET l == loadLayoutFromStorage(m)
        a == applyLayout(l, l.currentLayout, FALSE)
    IN IF a.threw THEN a
       ELSE [setupResizeHandlers(a) EXCEPT !.initialized = TRUE, !.ret = Undef]

\* init of part_003: no guard against a second call, and applyLayout is
\* called without the second argument, so it saves.
init_p3(m) ==
  LET l == loadLayoutFromStorage(m)
      a == applyLayout(l, l.currentLayout, TRUE)
  IN IF a.threw THEN a
     ELSE [setupResizeHandlers(a) EXCEPT !.ret = Undef]

\* A resetLayout that applies the preset without saving.
resetLayout_NoSave(m) == [applyLayout(m, "default", FALSE) EXCEPT !.ret = Undef]

\* resetLayout
resetLayout(m) == [applyLayout(m, "default", TRUE) EXCEPT !.ret = Undef]

\* getPanelState(panelName) returns state.panels[panelName] itself: the result
\* is the place of that object in the state, not a copy of it.
\* For a name that is no property of state.panels the result is undefined
\* (no place: the empty path).
getPanelState(m, panelName) ==
  IF panelName \in PanelIds THEN <<"panels", panelName>> ELSE <<>>

\* A value that is an object, as a return value.
Obj == [k |-> "object", n |-> 0]

\* getState() returns a new object whose panel properties are the panel
\* objects of the state themselves.
getState(m) == [p \in PanelIds |-> <<"panels", p>>]

\* The caller assigns `ref.visible = v` to an object it was handed.
AssignVisible(m, ref, v) == [m EXCEPT !.panels[ref[2]].visible = v]

(***************************************************************************)
(* Interactive resize.                                                     *)
(***************************************************************************)
\* The mouse events that are tried: pointer positions (clientX, clientY) of
\* the mousedown events and of the mousemove events.
Pointer(x, y) == [clientX |-> x, clientY |-> y]
MouseDownEvents == {Pointer(100, 100), Pointer(400, 400)}
MouseEvents == {Pointer(100, 100), Pointer(50, 400), Pointer(0, 50), Pointer(400, 0)}

\* Most resize callbacks that wait for one animation frame.
MaxPending == 2

\* Geometry of the page read by getBoundingClientRect in layout-manager.js:
\* left edge of the sidebar, bottom edge of the terminal's container, right
\* edge of the AI panel.
SidebarLeft == 0
ContainerBottom == 550
AiPanelRight == 700

\* element.offsetWidth / offsetHeight: 0 for an element that is not displayed.
OffsetSize(m, p) == IF m.dom[p].display THEN m.dom[p].size ELSE 0

\* The mousedown listeners of layout-manager.js.
mousedown(m, p) == [m EXCEPT !.isResizing = TRUE, !.resizingPanel = p]

\* startResize(e, panelName) of part_002.
startResize(m, e, panelName) ==
  LET m1 == [m EXCEPT !.isResizing = TRUE, !.resizingPanel = panelName,
                      !.startX = e.clientX, !.startY = e.clientY]
  IN IF panelName = "terminal"
     THEN [m1 EXCEPT !.startHeight = OffsetSize(m, panelName)]
     ELSE [m1 EXCEPT !.startWidth = OffsetSize(m, panelName)]

\* layout-manager.js: a candidate inside the bounds is stored, any other is
\* dropped; destructuring the bounds of a panel that is null throws.
StoreIfInRange(m, p, newSize) ==
  IF m.panels[p] = NullPanel THEN [m EXCEPT !.threw = TRUE]
  ELSE IF JsGe(Num(newSize), m.panels[p][MinField(p)])
     /\ JsLe(Num(newSize), m.panels[p][MaxField(p)])
  THEN [m EXCEPT !.panels[p][SizeField(p)] = Num(newSize),
                 !.dom[p].size = StyleSize(@, Num(newSize))]
  ELSE m

\* newHeight / newWidth of layout-manager.js: the pointer's distance from the
\* fixed edge of the panel, read from getBoundingClientRect (all zero for an
\* element that is not displayed).
NewSize(m, p, e) ==
  CASE p = "terminal" -> ContainerBottom - e.clientY
    [] p = "sidebar" -> e.clientX - (IF m.dom[p].display THEN SidebarLeft ELSE 0)
    [] OTHER -> (IF m.dom[p].display THEN AiPanelRight ELSE 0) - e.clientX

\* resizeTerminal / resizeSidebar / resizeAIPanel of layout-manager.js
resizeTerminal(m, e) == StoreIfInRange(m, "terminal", NewSize(m, "terminal", e))

resizeSidebar(m, e) == StoreIfInRange(m, "sidebar", NewSize(m, "sidebar", e))

resizeAIPanel(m, e) == StoreIfInRange(m, "aiPanel", NewSize(m, "aiPanel", e))

\* Math.max(min, Math.min(max, newSize))
Clamp(minSize, maxSize, newSize) == MathMax(minSize, MathMin(maxSize, newSize))

\* part_002: the candidate is clamped and stored when it differs;
\* destructuring the bounds of a panel that is null throws.
StoreClamped(m, p, newSize) ==
  LET clamped == Clamp(m.panels[p][MinField(p)], m.panels[p][MaxField(p)],
                       Num(newSize))
  IN IF m.panels[p] = NullPanel THEN [m EXCEPT !.threw = TRUE]
     ELSE IF StrictNe(clamped, m.panels[p][SizeField(p)])
     THEN [m EXCEPT !.panels[p][SizeField(p)] = clamped,
                    !.dom[p].size = StyleSize(@, clamped)]
     ELSE m

\* newWidth / newHeight of part_002: the size at mousedown plus the pointer's
\* movement since, towards the side the panel grows to.
NewSize_p2(m, p, e) ==
  CASE p = "sidebar" -> m.startWidth + (e.clientX - m.startX)
    [] p = "terminal" -> m.startHeight + (m.startY - e.clientY)
    [] OTHER -> m.startWidth + (m.startX - e.clientX)

\* resizeSidebar / resizeTerminal / resizeAIPanel of part_002
resizeSidebar_p2(m, e) == StoreClamped(m, "sidebar", NewSize_p2(m, "sidebar", e))

resizeTerminal_p2(m, e) == StoreClamped(m, "terminal", NewSize_p2(m, "terminal", e))

resizeAIPanel_p2(m, e) == StoreClamped(m, "aiPanel", NewSize_p2(m, "aiPanel", e))

\* The switch on state.resizingPanel, layout-manager.js.
ResizeSwitch(m, e) ==
  CASE m.resizingPanel = "terminal" -> resizeTerminal(m, e)
    [] m.resizingPanel = "sidebar" -> resizeSidebar(m, e)
    [] m.resizingPanel = "aiPanel" -> resizeAIPanel(m, e)
    [] OTHER -> m

\* The callback handed to requestAnimationFrame, part_002.
RafCallback(m, e) ==
  CASE m.resizingPanel = "sidebar" -> resizeSidebar_p2(m, e)
    [] m.resizingPanel = "terminal" -> resizeTerminal_p2(m, e)
    [] m.resizingPanel = "aiPanel" -> resizeAIPanel_p2(m, e)
    [] OTHER -> m

\* A handleMouseMove that persists every move.
handleMouseMove_Saving(m, e) ==
  IF ~m.isResizing THEN m ELSE saveLayoutToStorage(ResizeSwitch(m, e))

\* handleMouseMove of layout-manager.js
handleMouseMove(m, e) == IF ~m.isResizing THEN m ELSE ResizeSwitch(m, e)

\* handleMouseMove of part_002: the resize is left to a callback of
\* requestAnimationFrame, which keeps the event.  Beside the event the queue
\* records the panel that was dragged when the event arrived (`during`; the
\* callback does not read it).
handleMouseMove_p2(m, e) ==
  IF ~m.isResizing THEN m
  ELSE [m EXCEPT !.rafQueue = Append(@, [clientX |-> e.clientX, clientY |-> e.clientY,
                                         during |-> m.resizingPanel])]

\* A handleMouseUp that leaves resizingPanel as it is.
handleMouseUp_KeepsPanel(m) ==
  IF m.isResizing
  THEN saveLayoutToStorage([m EXCEPT !.isResizing = FALSE])
  ELSE m

\* handleMouseUp (all files)
handleMouseUp(m) ==
  IF m.isResizing
  THEN saveLayoutToStorage([m EXCEPT !.isResizing = FALSE, !.resizingPanel = "null"])
  ELSE m

\* One animation frame: the callbacks requested since the last frame run in
\* the order they were requested.
RECURSIVE RunCallbacks(_, _)
RunCallbacks(m, q) ==
  IF q = <<>> THEN m ELSE RunCallbacks(RafCallback(m, Head(q)), Tail(q))

(***************************************************************************)
(* Actions.                                                                *)
(***************************************************************************)
Variants == {"lm", "p2", "p3"}

\* Names handed to applyLayout: the presets, a name that is no property of
\* `layouts` at all, and one inherited from Object.prototype.
LayoutNames == PresetNames \cup {"doesNotExist"} \cup ObjectPrototypeKeys

\* Names handed to togglePanel: the panels and one unknown name.
PanelNames == PanelIds \cup {"editor"}

\* A record whose panels object holds only { sidebar: { visible: false } }.
PartialRecord ==
  [present |-> TRUE, parses |-> TRUE, currentLayout |-> "", keys |-> {"sidebar"},
   panels |-> [NoPanels EXCEPT !["sidebar"] = [EmptyObj EXCEPT !.visible = Bool(FALSE)]]]

\* A complete record naming no preset, with a sidebar wider than its maximum.
OversizeRecord ==
  [Stringify("custom", [DefaultPanels EXCEPT !["sidebar"].width = Num(700)])
     EXCEPT !.keys = PanelIds]

\* A record whose currentLayout is a property of Object.prototype.
InheritedNameRecord ==
  [present |-> TRUE, parses |-> TRUE, currentLayout |-> "constructor",
   keys |-> {}, panels |-> NoPanels]

\* An item that is not JSON.
CorruptItem == [NoItem EXCEPT !.present = TRUE]

\* A record that is JSON but no layout record: its currentLayout names no
\* preset and its sidebar is null.
InvalidRecord ==
  [present |-> TRUE, parses |-> TRUE, currentLayout |-> "custom", keys |-> {"sidebar"},
   panels |-> [NoPanels EXCEPT !["sidebar"] = NullPanel]]

\* The drag in progress, as the events delivered it (kept beside the state of
\* the manager): the panel whose handle took the mousedown, the pointer and
\* the panel's size at that mousedown, and the last mousemove since.
NoSession == [panel |-> "null", anchorX |-> 0, anchorY |-> 0, anchorSize |-> Undef,
              moved |-> FALSE, lastX |-> 0, lastY |-> 0]

\* What the store may hold when the first session starts.
InitialItems == {NoItem, PartialRecord, OversizeRecord, InheritedNameRecord,
                 CorruptItem, InvalidRecord}

Init ==
  /\ variant \in Variants
  /\ currentLayout = "default"
  /\ panels = DefaultPanels
  /\ isResizing = FALSE
  /\ resizingPanel = "null"
  /\ startX = 0
  /\ startY = 0
  /\ startWidth = 0
  /\ startHeight = 0
  /\ initialized = FALSE
  /\ storage \in InitialItems
  /\ dom = DomInit
  /\ rafQueue = <<>>
  /\ handlers = 0
  /\ effects = <<>>
  /\ call = NoCall
  /\ steps = 0
  /\ session = NoSession
  /\ writer = "none"
  /\ repeated = FALSE

\* The script has been evaluated to its last statement, which calls init()
\* (directly or on DOMContentLoaded): every other call and event of a session
\* comes after that first call.
Loaded == call.op \notin {"none", "reload"}

\* LayoutManager.init(), from the auto-initialisation or AppInitializer.
InitCall ==
  /\ Becomes(IF variant = "p3" THEN init_p3(Machine) ELSE init(Machine), "init", "")
  /\ UNCHANGED session

ApplyLayoutCall(name, env) ==
  /\ Loaded
  /\ Becomes(applyLayout(In(env), name, TRUE), "applyLayout", name)
  /\ UNCHANGED session

TogglePanelCall(name, env) ==
  /\ Loaded
  /\ variant = "p3" => name \notin {"editor", "editorArea"}
  /\ Becomes(togglePanel(In(env), name), "togglePanel", name)
  /\ UNCHANGED session

ResetLayoutCall ==
  /\ Loaded
  /\ Becomes(resetLayout(Machine), "resetLayout", "")
  /\ UNCHANGED session

\* A caller of getState() / getPanelState(name) hides the panel through the
\* object it was handed.
SnapshotMutation(name, viaGetState) ==
  /\ Loaded
  /\ variant = "p3" => (~viaGetState /\ name # "editorArea")
  /\ panels[name] # NullPanel
  /\ Becomes(AssignVisible(Machine,
                            IF viaGetState THEN getState(Machine)[name]
                            ELSE getPanelState(Machine, name),
                            Bool(FALSE)),
             "mutateSnapshot", name)
  /\ UNCHANGED session

\* The names getPanelState is read with: a panel and a name that is none.
ReadNames == {"sidebar", "doesNotExist"}

\* A caller reads getPanelState(name).
GetPanelStateCall(name) ==
  /\ Loaded
  /\ LET ref == getPanelState(Machine, name)
     IN Becomes([Machine EXCEPT !.ret = IF ref = <<>> THEN Undef
                                       ELSE IF panels[ref[2]] = NullPanel THEN Null
                                       ELSE Obj],
                "getPanelState", name)
  /\ UNCHANGED session

\* mousedown on the resize handle of panel p, which is displayed with it.
MouseDown(p, e) ==
  /\ handlers >= 1
  /\ dom[p].display
  /\ Becomes(IF variant = "p2" THEN startResize(Machine, e, p)
             ELSE mousedown(Machine, p), "mousedown", p)
  /\ session' = [panel |-> p, anchorX |-> e.clientX, anchorY |-> e.clientY,
                 anchorSize |-> panels[p][SizeField(p)],
                 moved |-> FALSE, lastX |-> 0, lastY |-> 0]

\* mousemove on the document.
MouseMove(e) ==
  /\ handlers >= 1
  /\ variant = "p2" /\ isResizing => Len(rafQueue) < MaxPending
  /\ Becomes(IF variant = "p2" THEN handleMouseMove_p2(Machine, e)
             ELSE handleMouseMove(Machine, e), "mousemove", "")
  /\ session' = IF isResizing
                THEN [session EXCEPT !.moved = TRUE, !.lastX = e.clientX,
                                     !.lastY = e.clientY]
                ELSE session

\* mousedown anywhere but on a resize handle: the manager has no listener for
\* it.
MouseDownElsewhere ==
  /\ handlers >= 1
  /\ Becomes(Machine, "mousedownElsewhere", "")
  /\ UNCHANGED session

\* mouseup on the document.
MouseUp(env) ==
  /\ handlers >= 1
  /\ Becomes(handleMouseUp(In(env)), "mouseup", "")
  /\ session' = NoSession

\* The browser runs the pending animation-frame callbacks.
AnimationFrame ==
  /\ rafQueue # <<>>
  /\ Becomes([RunCallbacks(Machine, rafQueue) EXCEPT !.rafQueue = <<>>], "frame", "")
  /\ UNCHANGED session

\* The page is loaded again: a new session over the same store.
Reload ==
  /\ Loaded
  /\ currentLayout' = "default"
  /\ panels' = DefaultPanels
  /\ isResizing' = FALSE
  /\ resizingPanel' = "null"
  /\ startX' = 0
  /\ startY' = 0
  /\ startWidth' = 0
  /\ startHeight' = 0
  /\ initialized' = FALSE
  /\ dom' = DomInit
  /\ rafQueue' = <<>>
  /\ handlers' = 0
  /\ effects' = <<>>
  /\ call' = [NoCall EXCEPT !.op = "reload"]
  /\ steps < MaxSteps
  /\ steps' = steps + 1
  /\ session' = NoSession
  /\ repeated' = FALSE
  /\ UNCHANGED <<variant, storage, writer>>

Next ==
  \/ InitCall
  \/ \E name \in LayoutNames, env \in Envs : ApplyLayoutCall(name, env)
  \/ \E name \in PanelNames, env \in Envs : TogglePanelCall(name, env)
  \/ ResetLayoutCall
  \/ \E name \in PanelIds, viaGetState \in BOOLEAN : SnapshotMutation(name, viaGetState)
  \/ \E name \in ReadNames : GetPanelStateCall(name)
  \/ \E p \in SizedPanels, e \in MouseDownEvents : MouseDown(p, e)
  \/ \E e \in MouseEvents : MouseMove(e)
  \/ MouseDownElsewhere
  \/ \E env \in Envs : MouseUp(env)
  \/ AnimationFrame
  \/ Reload

Spec == Init /\ [][Next]_vars

(***************************************************************************)
(* The drag alone: behaviours that start when init has run over an empty   *)
(* store and hold mouse events and animation frames only.                  *)
(***************************************************************************)
\* Most events of one behaviour of the drag specification.
DragSteps == 5

\* The manager as constructed, over an empty store.
Constructed ==
  [currentLayout |-> "default", panels |-> DefaultPanels,
   isResizing |-> FALSE, resizingPanel |-> "null",
   startX |-> 0, startY |-> 0, startWidth |-> 0, startHeight |-> 0,
   initialized |-> FALSE, storage |-> NoItem, dom |-> DomInit,
   rafQueue |-> <<>>, handlers |-> 0, effects |-> <<>>,
   ret |-> Undef, threw |-> FALSE,
   setItemThrows |-> FALSE, listenerThrows |-> FALSE]

InitDrag ==
  \E v \in Variants :
    \E m \in {IF v = "p3" THEN init_p3(Constructed) ELSE init(Constructed)} :
      /\ variant = v
      /\ currentLayout = m.currentLayout
      /\ panels = m.panels
      /\ isResizing = m.isResizing
      /\ resizingPanel = m.resizingPanel
      /\ startX = m.startX
      /\ startY = m.startY
      /\ startWidth = m.startWidth
      /\ startHeight = m.startHeight
      /\ initialized = m.initialized
      /\ storage = m.storage
      /\ dom = m.dom
      /\ rafQueue = m.rafQueue
      /\ handlers = m.handlers
      /\ effects = m.effects
      /\ call = [op |-> "init", arg |-> "", ret |-> m.ret, threw |-> m.threw]
      /\ steps = MaxSteps - DragSteps
      /\ session = NoSession
      /\ writer = IF Wrote(m.effects) THEN "init" ELSE "none"
      /\ repeated = FALSE

NextDrag ==
  \/ \E p \in SizedPanels, e \in MouseDownEvents : MouseDown(p, e)
  \/ \E e \in MouseEvents : MouseMove(e)
  \/ MouseDownElsewhere
  \/ \E env \in Envs : MouseUp(env)
  \/ AnimationFrame

SpecDrag == InitDrag /\ [][NextDrag]_vars

(***************************************************************************)
(* Properties.                                                             *)
(***************************************************************************)
\* The bounds of the sized panels as constructed.
MinSize(p) ==
  CASE p = "sidebar" -> SidebarMinWidth
    [] p = "terminal" -> TerminalMinHeight
    [] OTHER -> AiPanelMinWidth

MaxSize(p) ==
  CASE p = "sidebar" -> SidebarMaxWidth
    [] p = "terminal" -> TerminalMaxHeight
    [] OTHER -> AiPanelMaxWidth

\* clamp(s, lo, hi) on integers.
ClampInt(s, lo, hi) == IF s < lo THEN lo ELSE IF s > hi THEN hi ELSE s

\* The stored size of panel p.
SizeOf(ps, p) == ps[p][SizeField(p)]

\* The last mousemove of the drag in progress.
LastMove == Pointer(session.lastX, session.lastY)

\* The last mousemove of the drag in progress has been applied to the state:
\* by the mousemove handler itself in layout-manager.js and part_003, by the
\* animation frame that follows it in part_002.
DragMoveApplied ==
  /\ isResizing
  /\ session.moved
  /\ session.panel = resizingPanel
  /\ \/ variant # "p2" /\ call.op = "mousemove"
     \/ variant = "p2" /\ call.op = "frame"

\* The candidate size the code computes for the last mousemove of the drag.
Candidate ==
  IF variant = "p2" THEN NewSize_p2(Machine, session.panel, LastMove)
  ELSE NewSize(Machine, session.panel, LastMove)

\* C1: in every reachable state every visible sized panel has a size within
\* its bounds: sidebar width in [200,500], terminal height in [150,500],
\* aiPanel width in [300,600].
C1_VisibleSizesInBounds ==
  \A p \in SizedPanels :
    Truthy(panels[p].visible) =>
      /\ IsNum(SizeOf(panels, p))
      /\ MinSize(p) <= SizeOf(panels, p).n
      /\ SizeOf(panels, p).n <= MaxSize(p)

\* C2: after a mousemove of a drag of panel P has been applied, the stored size
\* of P is the candidate size s of that mousemove clamped into P's bounds: the
\* minimum when s is below it, the maximum when s is above it, else s.
C2_MoveStoresClampedCandidate ==
  DragMoveApplied =>
    SizeOf(panels, session.panel)
      = Num(ClampInt(Candidate, MinSize(session.panel), MaxSize(session.panel)))

\* C3: applyLayout with a name that is none of the six presets returns false,
\* does not throw, leaves currentLayout and every panel unchanged, writes
\* nothing to the store and fires no notification.
C3_UnknownPresetIsNoOp ==
  [][(call'.op = "applyLayout" /\ call'.arg \notin PresetNames) =>
       /\ call'.ret = Bool(FALSE)
       /\ ~call'.threw
       /\ currentLayout' = currentLayout
       /\ panels' = panels
       /\ storage' = storage
       /\ effects' = <<>>]_vars

\* The preset table as the claim C4 gives it: which panels a preset shows ...
C4_Visible(n, p) ==
  CASE n = "default" -> TRUE
    [] n = "focus" -> p = "editorArea"
    [] n = "coding" -> p # "aiPanel"
    [] n = "debugging" -> TRUE
    [] n = "aiAssist" -> p # "terminal"
    [] OTHER -> p \notin {"sidebar", "aiPanel"}

\* ... and the sizes it gives (0: none).
C4_Size(n, p) ==
  CASE n = "default" /\ p = "sidebar" -> 250
    [] n = "default" /\ p = "terminal" -> 250
    [] n = "default" /\ p = "aiPanel" -> 380
    [] n = "coding" /\ p = "sidebar" -> 250
    [] n = "coding" /\ p = "terminal" -> 250
    [] n = "debugging" /\ p = "sidebar" -> 250
    [] n = "debugging" /\ p = "terminal" -> 350
    [] n = "debugging" /\ p = "aiPanel" -> 380
    [] n = "aiAssist" /\ p = "sidebar" -> 250
    [] n = "aiAssist" /\ p = "aiPanel" -> 450
    [] n = "minimal" /\ p = "terminal" -> 200
    [] OTHER -> 0

\* C4: after applyLayout(name) has returned true, name is one of the six
\* presets, currentLayout is name, every panel's visible flag is the one the
\* preset table gives and every size the table gives is the stored size.
C4_PresetApplied ==
  (call.op = "applyLayout" /\ call.ret = Bool(TRUE)) =>
    /\ call.arg \in PresetNames
    /\ currentLayout = call.arg
    /\ \A p \in PanelIds :
         /\ panels[p].visible = Bool(C4_Visible(call.arg, p))
         /\ C4_Size(call.arg, p) > 0 =>
              SizeOf(panels, p) = Num(C4_Size(call.arg, p))

\* applyLayout('aiAssist') has returned true in a state whose terminal was
\* visible in the store's record: the terminal is hidden, the AI panel 450 wide.
C4_Witness ==
  /\ call.op = "applyLayout"
  /\ call.arg = "aiAssist"
  /\ call.ret = Bool(TRUE)
  /\ ~Truthy(panels["terminal"].visible)
  /\ panels["aiPanel"].width = Num(450)

\* C5: when the init of a new session runs over a record that togglePanel or
\* the mouseup of a drag wrote in the session before, every panel's visible
\* flag and size in memory after init are those of the record.
C5_InitRestoresRecord ==
  [][(call.op = "reload" /\ call'.op = "init"
        /\ writer \in {"togglePanel", "mouseup"}) =>
       \A p \in PanelIds :
         /\ panels'[p].visible = storage.panels[p].visible
         /\ SizeOf(panels', p) = SizeOf(storage.panels, p)]_vars

\* C6: loading a record whose panels hold only { sidebar: { visible: false } }
\* yields a hidden sidebar whose width, minWidth and maxWidth are 250, 200 and
\* 500, and leaves every other panel as constructed; no field that was
\* defined becomes undefined.
C6_PartialRecordMerged ==
  [][(~initialized /\ storage = PartialRecord /\ call'.op = "init") =>
       LET l == loadLayoutFromStorage(Machine).panels
       IN /\ l["sidebar"].visible = Bool(FALSE)
          /\ l["sidebar"].width = Num(250)
          /\ l["sidebar"].minWidth = Num(200)
          /\ l["sidebar"].maxWidth = Num(500)
          /\ \A p \in PanelIds \ {"sidebar"} : l[p] = DefaultPanels[p]
          /\ \A p \in PanelIds, f \in Fields :
               DefaultPanels[p][f] # Undef => l[p][f] # Undef]_vars

\* C7: in every reachable state the minimum and the maximum of every sized
\* panel are the ones it was constructed with.
C7_BoundsNeverChange ==
  \A p \in SizedPanels :
    /\ panels[p][MinField(p)] = Num(MinSize(p))
    /\ panels[p][MaxField(p)] = Num(MaxSize(p))

\* C8: mousedown, mousemove and the deferred resize callbacks write nothing to
\* the store; the mouseup that ends a drag writes to it exactly once, and a
\* mouseup outside a drag writes nothing.
C8_OneWriteAtMouseUp ==
  [][/\ call'.op \in {"mousedown", "mousemove", "frame"} =>
          Saves(effects') = 0 /\ storage' = storage
     /\ call'.op = "mouseup" =>
          Saves(effects') = (IF isResizing THEN 1 ELSE 0)]_vars

\* A drag of the sidebar has ended: its one mousemove made the sidebar 400 wide
\* and the mouseup wrote that width, once.
C8_Witness ==
  /\ call.op = "mouseup"
  /\ Saves(effects) = 1
  /\ writer = "mouseup"
  /\ storage.panels["sidebar"].width = Num(400)

\* C9: the size the mouseup of a drag writes to the store for the dragged
\* panel is the clamped candidate of the last mousemove of that drag, whether
\* the mouseup follows the mousemove itself or an animation frame.
C9_CommitIsLastMove ==
  [][(call'.op = "mouseup" /\ isResizing /\ session.moved
        /\ session.panel = resizingPanel
        /\ call.op \in {"mousemove", "frame"}) =>
       SizeOf(storage'.panels, session.panel)
         = Num(ClampInt(Candidate, MinSize(session.panel), MaxSize(session.panel)))]_vars

\* The movement of the pointer since the mousedown, towards the side panel p
\* grows to: right for the sidebar, up for the terminal, left for the AI panel.
C10_Delta(p) ==
  CASE p = "sidebar" -> session.lastX - session.anchorX
    [] p = "terminal" -> session.anchorY - session.lastY
    [] OTHER -> session.anchorX - session.lastX

\* C10: after a mousemove of a drag has been applied, the stored size of the
\* dragged panel is clamp(anchorSize + delta), anchorSize and the anchor
\* pointer being those of the mousedown (a sidebar 250 wide, anchored at
\* x=100, is 200 wide after a move to x=50 and after a move to x=0).
C10_SizeIsAnchorPlusDelta ==
  (DragMoveApplied /\ IsNum(session.anchorSize)) =>
    SizeOf(panels, session.panel)
      = Num(ClampInt(session.anchorSize.n + C10_Delta(session.panel),
                     MinSize(session.panel), MaxSize(session.panel)))

\* One of the calls of localStorage.setItem threw.
SaveFailed(es) == \E i \in 1..Len(es) : es[i].type = "save" /\ es[i].value = Bool(FALSE)

\* The places of the notifications among the effects of one call.
Notifications(es) ==
  {i \in 1..Len(es) : es[i].type \notin {"save", "listener", "listenerThrew"}}

\* The places where a subscriber was invoked.
Invocations(es) == {i \in 1..Len(es) : es[i].type \in {"listener", "listenerThrew"}}

\* C11: when a mousedown on the resize handle of panel Q arrives during a drag
\* of another panel P, either the drag stays with P or the current size of P
\* is written to the store with the step that makes Q the target.
C11_SecondHandleIgnoredOrCommitted ==
  [][(call'.op = "mousedown" /\ isResizing /\ resizingPanel # call'.arg) =>
       \/ resizingPanel' = resizingPanel
       \/ /\ Wrote(effects')
          /\ SizeOf(storage'.panels, resizingPanel)
               = JsonValue(SizeOf(panels, resizingPanel))]_vars

\* C12: a drag whose mouseup was never delivered ends with the next mousedown
\* outside the resize handles: after it isResizing is false and resizingPanel
\* is null.
C12_PointerDownEndsStaleDrag ==
  [][(isResizing /\ call'.op = "mousedownElsewhere") =>
       (~isResizing' /\ resizingPanel' = "null")]_vars

\* C13: when the write to the store throws during applyLayout of a preset,
\* togglePanel of a panel or the mouseup of a drag, the call does not throw,
\* the store keeps its item, the state in memory holds the new value and the
\* layoutChanged / panelToggled notification is dispatched all the same.
C13_StoreFailureContained ==
  [][SaveFailed(effects') =>
       /\ ~call'.threw
       /\ storage' = storage
       /\ call'.op = "applyLayout" =>
            /\ currentLayout' = call'.arg
            /\ panels' = OverlayPreset(panels, call'.arg)
            /\ call'.ret = Bool(TRUE)
            /\ \E i \in Notifications(effects') :
                 effects'[i].type = "layoutChanged" /\ effects'[i].name = call'.arg
       /\ call'.op = "togglePanel" =>
            /\ panels'[call'.arg].visible = Bool(~Truthy(panels[call'.arg].visible))
            /\ call'.ret = panels'[call'.arg].visible
            /\ \E i \in Notifications(effects') :
                 /\ effects'[i].type = "panelToggled"
                 /\ effects'[i].name = call'.arg
                 /\ effects'[i].value = panels'[call'.arg].visible
       /\ call'.op = "mouseup" =>
            /\ isResizing /\ ~isResizing'
            /\ panels' = panels]_vars

\* togglePanel('terminal') has returned false (hidden) although the write to
\* the store threw: the store still shows the terminal, the notification went
\* out.
C13_Witness ==
  /\ call = [op |-> "togglePanel", arg |-> "terminal", ret |-> Bool(FALSE), threw |-> FALSE]
  /\ SaveFailed(effects)
  /\ panels["terminal"].visible = Bool(FALSE)
  /\ storage # Stringify(currentLayout, panels)
  /\ \E i \in Notifications(effects) : effects[i].type = "panelToggled"

\* C14: init over an item that is not JSON, or that is JSON but no layout
\* record, does not throw; the load leaves currentLayout and every panel as
\* constructed, and init ends in the state it ends in over an empty store.
C14_InvalidItemIsNoItem ==
  [][(~initialized /\ storage \in {CorruptItem, InvalidRecord} /\ call'.op = "init") =>
       LET l == loadLayoutFromStorage(Machine)
           e == init([Machine EXCEPT !.storage = NoItem])
       IN /\ ~call'.threw
          /\ l.currentLayout = "default"
          /\ l.panels = DefaultPanels
          /\ currentLayout' = e.currentLayout
          /\ panels' = e.panels]_vars

\* C15: in every reachable state, saveLayoutToStorage (the store accepting the
\* write) followed by loadLayoutFromStorage yields the currentLayout and the
\* panels that were in memory when the save was made.
C15_SaveLoadRoundTrip ==
  LET l == loadLayoutFromStorage(saveLayoutToStorage(Machine))
  IN l.currentLayout = currentLayout /\ l.panels = panels

\* C16: togglePanel(id) of one of the four panels does not throw, flips the
\* visible flag of that panel and returns the new flag; every other property
\* of every panel and currentLayout are unchanged, and exactly one
\* notification fires: panelToggled with { panel: id, visible: new flag }.
C16_ToggleFrame ==
  [][(call'.op = "togglePanel" /\ call'.arg \in PanelIds) =>
       /\ ~call'.threw
       /\ panels'[call'.arg].visible = Bool(~Truthy(panels[call'.arg].visible))
       /\ call'.ret = panels'[call'.arg].visible
       /\ \A p \in PanelIds, f \in Fields :
            (p # call'.arg \/ f # "visible") => panels'[p][f] = panels[p][f]
       /\ currentLayout' = currentLayout
       /\ Cardinality(Notifications(effects')) = 1
       /\ \A i \in Notifications(effects') :
            effects'[i] = Effect("panelToggled", call'.arg, panels'[call'.arg].visible)]_vars

\* C17: an assignment to the object that getState() or getPanelState(id)
\* returned changes nothing in the manager: the panels in memory, and with
\* them what the next getState() returns and the next save writes, are as
\* before.
C17_SnapshotIsACopy ==
  [][(call'.op = "mutateSnapshot") =>
       /\ panels' = panels
       /\ currentLayout' = currentLayout
       /\ storage' = storage]_vars

C19_MouseUpNotifiesOnce ==
  [][/\ (call'.op = "mouseup" /\ isResizing) =>
          /\ Cardinality(Notifications(effects')) = 1
          /\ \A i \in Notifications(effects') :
               /\ effects'[i].name = resizingPanel
               /\ effects'[i].value = SizeOf(panels', resizingPanel)
     /\ call'.op \in {"mousemove", "frame"} => Notifications(effects') = {}]_vars

C21_ApplyTwiceIsApplyOnce ==
  [][(call.op = "applyLayout" /\ call.ret = Bool(TRUE) /\ Wrote(effects)
        /\ call'.op = "applyLayout" /\ call'.arg = call.arg
        /\ ~SaveFailed(effects')) =>
       /\ call'.ret = Bool(TRUE)
       /\ currentLayout' = currentLayout
       /\ panels' = panels
       /\ storage' = storage]_vars

\* applyLayout('minimal') has been applied twice in a row, both times
\* written: only the terminal is shown beside the editor, 200 high.
C21_Witness ==
  /\ repeated
  /\ call = [op |-> "applyLayout", arg |-> "minimal", ret |-> Bool(TRUE), threw |-> FALSE]
  /\ Wrote(effects)
  /\ storage = Stringify("minimal", panels)
  /\ panels["terminal"].height = Num(200)
  /\ ~Truthy(panels["sidebar"].visible)

\* C22: togglePanel and the mouse events of a drag never change
\* currentLayout; it changes only with an applyLayout that returns true, with
\* a resetLayout that completes, or with an init (which loads the record).
C22_LayoutNameChangesOnlyByPreset ==
  [][/\ call'.op \in {"togglePanel", "mousedown", "mousemove", "mouseup", "frame",
                      "mousedownElsewhere"} => currentLayout' = currentLayout
     /\ (currentLayout' # currentLayout /\ call'.op # "reload") =>
          \/ call'.op = "applyLayout" /\ call'.ret = Bool(TRUE)
          \/ call'.op = "resetLayout" /\ ~call'.threw
          \/ call'.op = "init"]_vars

\* C23: reading a panel by a name outside sidebar, editorArea, terminal,
\* aiPanel fails with an error instead of returning a value, and changes
\* nothing.
C23_UnknownPanelReadFails ==
  [][(call'.op = "getPanelState" /\ call'.arg \notin PanelIds) =>
       /\ call'.threw
       /\ currentLayout' = currentLayout
       /\ panels' = panels
       /\ storage' = storage]_vars

\* C24: resetLayout() ends in the state, the persisted record and the
\* notifications of applyLayout('default') made in its place: currentLayout is
\* 'default', the four panels are visible, the sidebar is 250 wide, the
\* terminal 250 high and the AI panel 380 wide.
C24_ResetIsApplyDefault ==
  [][(call'.op = "resetLayout") =>
       LET a == applyLayout(Machine, "default", TRUE)
       IN /\ currentLayout' = a.currentLayout
          /\ panels' = a.panels
          /\ storage' = a.storage
          /\ dom' = a.dom
          /\ effects' = a.effects
          /\ call'.threw = a.threw
          /\ currentLayout' = "default"
          /\ \A p \in PanelIds : panels'[p].visible = Bool(TRUE)
          /\ panels'["sidebar"].width = Num(250)
          /\ panels'["terminal"].height = Num(250)
          /\ panels'["aiPanel"].width = Num(380)
          /\ storage' = Stringify("default", panels')
          /\ \E i \in Notifications(effects') :
               effects'[i] = Effect("layoutChanged", "default", Undef)]_vars

\* resetLayout() has run in a session whose record had hidden the sidebar and
\* lost its bounds: the layout is 'default' again, written by resetLayout.
C24_Witness ==
  /\ call.op = "resetLayout"
  /\ writer = "resetLayout"
  /\ currentLayout = "default"
  /\ panels["sidebar"].visible = Bool(TRUE)
  /\ panels["sidebar"].minWidth = Undef
  /\ storage = Stringify("default", panels)

\* C25: the resize controller has two states.  It is idle when a session
\* starts; a mousedown on a resize handle makes it dragging with resizingPanel
\* that handle's panel; a mouseup makes it idle; and in every reachable state
\* isResizing is true exactly when resizingPanel is sidebar, terminal or
\* aiPanel, and resizingPanel is null otherwise.
C25_TwoStateResize ==
  /\ isResizing <=> resizingPanel \in SizedPanels
  /\ ~isResizing => resizingPanel = "null"
  /\ call.op \in {"none", "reload"} => ~isResizing
  /\ call.op = "mousedown" => (isResizing /\ resizingPanel = call.arg)
  /\ call.op = "mouseup" => ~isResizing

\* A drag of the terminal has been ended by its mouseup, which wrote the
\* record: the controller is idle again.
C25_Witness ==
  /\ call.op = "mouseup"
  /\ writer = "mouseup"
  /\ Saves(effects) = 1
  /\ ~isResizing
  /\ resizingPanel = "null"
  /\ panels["terminal"].height = Num(150)

\* C26: in every reachable state currentLayout is the name of one of the six
\* presets.
C26_LayoutNameIsPreset == currentLayout \in PresetNames

\* C27: after init, and after every applyLayout, togglePanel and mouseup that
\* wrote the record, when no drag is in progress and the store holds a record,
\* the record's currentLayout and panels are those in memory.
C27_RecordMatchesMemory ==
  [][(/\ \/ call'.op = "init"
         \/ call'.op \in {"applyLayout", "togglePanel", "mouseup"} /\ Wrote(effects')
      /\ ~SaveFailed(effects')
      /\ ~isResizing'
      /\ storage'.present /\ storage'.parses) =>
       /\ storage'.currentLayout = currentLayout'
       /\ \A p \in PanelIds : p \in storage'.keys /\ storage'.panels[p] = panels'[p]]_vars

\* C28: a mousemove received during the drag of panel P changes at most the
\* size of P, whenever its resize is carried out (at once, or in a later
\* animation frame, also one that follows a mouseup and the mousedown of
\* another handle): no other panel, no visible flag and not currentLayout;
\* and a mousemove or mouseup received while no drag is in progress changes
\* nothing and writes nothing.
C28_MoveTouchesOnlyDraggedPanel ==
  [][/\ (call'.op = "mousemove" /\ isResizing) =>
          /\ currentLayout' = currentLayout
          /\ \A p \in PanelIds, f \in Fields :
               panels'[p][f] # panels[p][f] => (p = resizingPanel /\ f = SizeField(p))
     /\ call'.op = "frame" =>
          /\ currentLayout' = currentLayout
          /\ \A p \in PanelIds, f \in Fields :
               panels'[p][f] # panels[p][f] =>
                 /\ f = SizeField(p)
                 /\ \E i \in 1..Len(rafQueue) : rafQueue[i].during = p
     /\ (call'.op \in {"mousemove", "mouseup"} /\ ~isResizing) =>
          /\ currentLayout' = currentLayout
          /\ panels' = panels
          /\ storage' = storage
          /\ Saves(effects') = 0]_vars

\* C29: an applyLayout that returns true leaves the stored size of every
\* panel to which the preset gives no size as it was, in memory and in the
\* record it writes.
C29_SizeOfHiddenPanelKept ==
  [][(call'.op = "applyLayout" /\ call'.ret = Bool(TRUE)) =>
       \A p \in SizedPanels :
         (layouts[call'.arg][p][SizeField(p)] = Undef /\ panels[p] # NullPanel) =>
           /\ SizeOf(panels', p) = SizeOf(panels, p)
           /\ Wrote(effects') =>
                SizeOf(storage'.panels, p) = JsonValue(SizeOf(panels, p))]_vars

\* applyLayout('focus') has hidden a sidebar that a drag had made 400 wide:
\* the width is still stored, in memory and in the record.
C29_Witness ==
  /\ call = [op |-> "applyLayout", arg |-> "focus", ret |-> Bool(TRUE), threw |-> FALSE]
  /\ panels["sidebar"].visible = Bool(FALSE)
  /\ panels["sidebar"].width = Num(400)
  /\ storage.panels["sidebar"].width = Num(400)

\* C30: a call of init that is not the first of its session changes neither
\* currentLayout nor any panel nor the store nor the registered handlers.
C30_InitOnlyOnce ==
  [][(Loaded /\ call'.op = "init") =>
       /\ currentLayout' = currentLayout
       /\ panels' = panels
       /\ storage' = storage
       /\ handlers' = handlers]_vars

====
